---- MODULE Spec2Model ----
(***************************************************************************)
(* The Tracker of atom-sdk/src/tracker.class.js: per-stream accumulation,  *)
(* count and byte-size triggers, detachment of a stream's array on flush,  *)
(* and the retry routine _send with exponential backoff and jitter.        *)
(*                                                                         *)
(* JavaScript arrays are objects with identity: the model keeps them on a  *)
(* heap and the Tracker's dictionary and the closures of _send hold        *)
(* references into it, so that aliasing between the live array of a stream *)
(* and the array captured by an in-flight send is decided by the code's    *)
(* assignments and not by the model's data types.                          *)
(***************************************************************************)
EXTENDS Integers, Sequences, FiniteSets, TLC

VARIABLES
  params,       \* this.params: the object the constructor was given (and wrote to)
  accumulated,  \* this.accumulated: the dictionary stream -> array, in key order
  heap,         \* the arrays ever allocated; a reference is an index into heap
  batches,      \* one entry per _send closure (stream, sendData, timeout, callback)
  groups,       \* one entry per taskMap call that ran at least one task
  accepted,     \* history: the records pushed by track, in call order
  thrown,       \* what the last call of track or flush threw ("none": it returned)
  timer,        \* this.timer: whether the Tracker has a timer set
  env           \* the caller and the transport of this run: the arguments the
                \* caller uses, the track calls and failing answers still to come

vars == <<params, accumulated, heap, batches, groups, accepted, thrown, timer, env>>

----------------------------------------------------------------------------
(* Bounds of the model.                                                    *)

\* accepted track calls and failing answers in a run of Spec
MaxTracks == 3
MaxFailures == 1
\* the same in a run of SpecAll, of SpecAnyArgs and of SpecRetry
AllTracks == 3
AllFailures == 1
AnyArgsTracks == 2
AnyArgsFailures == 1
RetryTracks == 1
RetryFailures == 12
TimerTracks == 3
TimerFailures == 1
SharedTracks == 2
SharedFailures == 1
DistTracks == 3
DistFailures == 1
DistFlushes == 1

----------------------------------------------------------------------------
(* JavaScript values that reach the Tracker's arguments.                   *)

Undefined == [t |-> "undefined", v |-> <<>>]
Null == [t |-> "null", v |-> <<>>]
\* a string is its sequence of characters
Str(cs) == [t |-> "string", v |-> cs]
\* an array of strings
Arr(xs) == [t |-> "array", v |-> xs]
\* a plain object: its own properties <<key, value>>, both strings, in order
Obj(kvs) == [t |-> "object", v |-> kvs]
\* an object that refers to itself: JSON.stringify throws on it
Circular == [t |-> "circular", v |-> <<>>]

\* the value of a property read that finds nothing (x.length on an object)
NoValue == -1

\* Characters are named by one-character strings, or by their code point.
Euro == "U+20AC"
Emoji == "U+1F600"

\* UTF-16 code units of a character: what String.prototype.length counts
CodeUnits(c) == IF c = Emoji THEN 2 ELSE 1

\* the UTF-8 bytes encodeURI escapes a character to
Utf8(c) ==
  CASE c = Euro -> <<226, 130, 172>>
    [] c = Emoji -> <<240, 159, 152, 128>>
    [] c = "{" -> <<123>>
    [] c = "}" -> <<125>>
    [] c = "\"" -> <<34>>
    [] c = "%" -> <<37>>
    [] c = "a" -> <<97>>
    [] c = "b" -> <<98>>
    [] c = "," -> <<44>>
    [] c = ":" -> <<58>>

\* the characters encodeURI leaves as they are (of those the model uses)
UriUnescaped == {"a", "b", ",", ":"}

RECURSIVE StringLength(_)
StringLength(cs) ==
  IF cs = <<>> THEN 0 ELSE CodeUnits(Head(cs)) + StringLength(Tail(cs))

\* x.length as track reads it; reading it of undefined or null throws
LengthThrows(x) == x.t \in {"undefined", "null"}
Length(x) ==
  CASE x.t = "string" -> StringLength(x.v)
    [] x.t = "array" -> Len(x.v)
    [] OTHER -> NoValue

\* if (x): a string is truthy when it is not empty, an object always
Truthy(x) ==
  CASE x.t \in {"undefined", "null"} -> FALSE
    [] x.t = "string" -> x.v # <<>>
    [] OTHER -> TRUE

----------------------------------------------------------------------------
(* Serialization: JSON.stringify, Array.prototype.toString, encodeURI and  *)
(* the byte count of line 180.                                             *)

HexDigits == <<"0", "1", "2", "3", "4", "5", "6", "7", "8", "9", "A", "B", "C", "D", "E", "F">>

\* one byte as encodeURI writes it: "%XX"
PercentByte(n) == <<"%", HexDigits[(n \div 16) + 1], HexDigits[(n % 16) + 1]>>

RECURSIVE PercentBytes(_)
PercentBytes(bs) ==
  IF bs = <<>> THEN <<>> ELSE PercentByte(Head(bs)) \o PercentBytes(Tail(bs))

RECURSIVE encodeURI(_)
encodeURI(cs) ==
  IF cs = <<>> THEN <<>>
  ELSE (IF Head(cs) \in UriUnescaped THEN <<Head(cs)>> ELSE PercentBytes(Utf8(Head(cs))))
       \o encodeURI(Tail(cs))

\* string.split(/%..|./).length - 1: the number of matches of the pattern,
\* taken from the left, "%" and two more characters before any one character
RECURSIVE SplitCount(_)
SplitCount(cs) ==
  IF cs = <<>> THEN 0
  ELSE IF Head(cs) = "%" /\ Len(cs) >= 3 THEN 1 + SplitCount(SubSeq(cs, 4, Len(cs)))
  ELSE 1 + SplitCount(Tail(cs))

\* Array.prototype.toString: the elements joined with ","
RECURSIVE Join(_)
Join(strs) ==
  IF strs = <<>> THEN <<>>
  ELSE IF Len(strs) = 1 THEN strs[1]
  ELSE strs[1] \o <<",">> \o Join(Tail(strs))

\* the strings of an array of records
Strings(array) == [i \in 1..Len(array) |-> array[i].s]

\* a mutant of _byteCount: counts UTF-16 code units (string.length)
ByteCountUnits(array) == StringLength(Join(Strings(array)))

\* _byteCount(array): encodeURI coerces the array to a string first
_byteCount(array) == SplitCount(encodeURI(Join(Strings(array))))

RECURSIVE StringifyProps(_)
StringifyProps(kvs) ==
  IF kvs = <<>> THEN <<>>
  ELSE <<"\"">> \o kvs[1][1] \o <<"\"", ":", "\"">> \o kvs[1][2] \o <<"\"">>
       \o (IF Len(kvs) = 1 THEN <<>> ELSE <<",">> \o StringifyProps(Tail(kvs)))

\* JSON.stringify of a plain object with string values
StringifyThrows(x) == x.t = "circular"
Stringify(x) == <<"{">> \o StringifyProps(x.v) \o <<"}">>

----------------------------------------------------------------------------
(* The constructor (lines 16-36).                                          *)

\* this.retryTimeout
retryTimeout == 1000

\* params.bulkSize is a number of KB and may be a fraction: num/den
Kb(num, den) == [num |-> num, den |-> den]

\* what the constructor leaves in this.params; an absent option reads as 0
\* here, and 0 and undefined are both falsy in "params.x ? ... : default"
Tracker(p) ==
  [flushInterval |-> IF p.flushInterval # 0 THEN p.flushInterval * 1000 ELSE 10000,
   bulkLen |-> IF p.bulkLen # 0 THEN p.bulkLen ELSE 3,
   bulkSize |-> IF p.bulkSize.num # 0 THEN (p.bulkSize.num * 1024) \div p.bulkSize.den
                ELSE 10 * 1024]

\* the options the model constructs a Tracker with: a size threshold of
\* 1/128 KB (8 bytes) with the default count threshold, and no options at all
SmallBulkParams == [flushInterval |-> 10, bulkLen |-> 0, bulkSize |-> Kb(1, 128)]
NoParams == [flushInterval |-> 0, bulkLen |-> 0, bulkSize |-> Kb(0, 1)]

\* options with a negative size threshold: -1/128 KB, which line 23 makes -8
NegativeBulkParams == [flushInterval |-> 10, bulkLen |-> 0, bulkSize |-> Kb(0 - 1, 128)]

----------------------------------------------------------------------------
(* The dictionary this.accumulated: entries [k, ref] in insertion order    *)
(* (the order for...in visits string keys in).                             *)

HasKey(acc, k) == \E i \in 1..Len(acc) : acc[i].k = k

RefOf(acc, k) == acc[CHOOSE i \in 1..Len(acc) : acc[i].k = k].ref

\* acc[k] = ref
SetKey(acc, k, ref) ==
  IF HasKey(acc, k)
  THEN [i \in 1..Len(acc) |-> IF acc[i].k = k THEN [k |-> k, ref |-> ref] ELSE acc[i]]
  ELSE Append(acc, [k |-> k, ref |-> ref])

\* the state the handlers read and write, as one record
World == [acc |-> accumulated, heap |-> heap, batches |-> batches, groups |-> groups,
          accepted |-> accepted, timer |-> timer]

\* the array a stream's key refers to
Queue(w, k) == w.heap[RefOf(w.acc, k)]

----------------------------------------------------------------------------
(* Transport answers and completion.                                       *)

NoResult == [err |-> "pending", data |-> "pending", status |-> NoValue]
Ok200 == [err |-> "null", data |-> "body", status |-> 200]
Err401 == [err |-> "Auth Error", data |-> "null", status |-> 401]
Err500 == [err |-> "Server Error", data |-> "null", status |-> 500]
\* an error reported with no status (null or undefined as third argument)
ErrNoStatus == [err |-> "Stream and data required fields for send event", data |-> "null",
                status |-> NoValue]
Timeout408 == [err |-> "Timeout - No response from server", data |-> "null", status |-> 408]

Answers == {Ok200, Err401, Err500, ErrNoStatus}

\* status >= n in JavaScript: false when status is undefined, null compares as 0
StatusGE(status, n) == status # NoValue /\ status >= n

\* 20 * 60 * 1000
RetryCeiling == 20 * 60 * 1000

\* Math.random() as a fraction rnd/1000 in [0, 1)
RandomDen == 1000
RandomSamples == {0, 999}

\* Math.floor((Math.random() * 1000) + 100)
Jitter(rnd) == ((rnd * 1000) \div RandomDen) + 100

\* taskMap's per-task callback: stores the task's result at its position and
\* calls the caller's callback once every task has settled
taskCb(w, g, i, res) ==
  LET gr == w.groups[g]
      settled == gr.settled + 1
  IN [w EXCEPT !.groups[g] =
        [gr EXCEPT !.results[i] = res,
                   !.settled = settled,
                   !.called = IF settled = gr.n THEN @ + 1 ELSE @]]

\* callback(err, data, status) as a _send closure calls it
Callback(w, b, res) ==
  taskCb([w EXCEPT !.batches[b].phase = "done",
                   !.batches[b].cb = @ + 1,
                   !.batches[b].result = res],
         w.batches[b].group, w.batches[b].idx, res)

\* history: the answer batch b got
Answered(w, b, res) == [w EXCEPT !.batches[b].answer = res]

\* setTimeout(retry, timeout) of batch b
Schedule(w, b) ==
  [w EXCEPT !.batches[b].phase = "waiting",
            !.batches[b].delay = w.batches[b].timeout,
            !.batches[b].waited = @ + w.batches[b].timeout]

\* a mutant of OnReply: retries every error, whatever its status
OnReplyRetryAll(w, b, res) ==
  IF res.err # "null"
  THEN IF w.batches[b].timeout < RetryCeiling
       THEN Schedule(Answered(w, b, res), b)
       ELSE Callback(Answered(w, b, res), b, Timeout408)
  ELSE Callback(Answered(w, b, res), b, res)

\* a mutant of OnReply: a 5xx answer below the ceiling sets no timer
OnReplyNoRetry(w, b, res) ==
  IF res.err # "null" /\ StatusGE(res.status, 500)
  THEN IF w.batches[b].timeout < RetryCeiling
       THEN [Answered(w, b, res) EXCEPT !.batches[b].phase = "dropped"]
       ELSE Callback(Answered(w, b, res), b, Timeout408)
  ELSE Callback(Answered(w, b, res), b, res)

\* a mutant of OnReply: no ceiling, a 5xx answer always schedules a retry
OnReplyNoCeiling(w, b, res) ==
  IF res.err # "null" /\ StatusGE(res.status, 500)
  THEN Schedule(Answered(w, b, res), b)
  ELSE Callback(Answered(w, b, res), b, res)

\* the function _send gives putEvents (lines 160-175)
OnReply(w, b, res) ==
  IF res.err # "null" /\ StatusGE(res.status, 500)
  THEN IF w.batches[b].timeout < RetryCeiling
       THEN Schedule(Answered(w, b, res), b)
       ELSE Callback(Answered(w, b, res), b, Timeout408)
  ELSE Callback(Answered(w, b, res), b, res)

\* IronSourceAtom.prototype.putEvents: answers at once, with no status, when
\* the stream or the data is missing; else the request is in flight
putEvents(w, b) ==
  LET data == w.heap[w.batches[b].data]
      w1 == [w EXCEPT !.batches[b].attempts = @ + 1, !.batches[b].wire = data]
      sync(msg) == [err |-> msg, data |-> "null", status |-> NoValue]
  IN IF w.batches[b].stream = <<>> THEN OnReply(w1, b, sync("Stream is required"))
     ELSE IF Len(data) = 0
          THEN OnReply(w1, b, sync("Data (must be not empty array) is required"))
          ELSE [w1 EXCEPT !.batches[b].phase = "sent"]

\* a mutant of _send: the first run deletes the stream's key
SendDeletesKey(w, b) ==
  LET bt == w.batches[b]
  IN putEvents(IF bt.firstRun
               THEN [w EXCEPT !.acc = SelectSeq(@, LAMBDA e : e.k # bt.stream),
                              !.batches[b].firstRun = FALSE]
               ELSE w, b)

\* a mutant of _send: never replaces the stream's array
SendNoDetach(w, b) == putEvents([w EXCEPT !.batches[b].firstRun = FALSE], b)

\* _send(sendStream, sendData, timeout, callback, firstRun) (lines 151-160)
_send(w, b) ==
  LET bt == w.batches[b]
  IN CHOOSE r \in {putEvents(w1, b) :
       w1 \in {IF bt.firstRun
               THEN [w EXCEPT !.heap = Append(@, <<>>),
                              !.acc = SetKey(@, bt.stream, Len(w.heap) + 1),
                              !.batches[b].firstRun = FALSE]
               ELSE w}} : TRUE

\* a mutant of OnRetryTimer: the retry sends the stream's array of the moment
OnRetryTimerRereads(w, b, rnd) ==
  LET t == w.batches[b].timeout
  IN _send([w EXCEPT !.batches[b].timeout = t * 2 + Jitter(rnd),
                     !.batches[b].prev = t,
                     !.batches[b].data = RefOf(w.acc, w.batches[b].stream)], b)

\* a mutant of OnRetryTimer: the timeout is one value all batches share
OnRetryTimerShared(w, b, rnd) ==
  LET t == w.batches[b].timeout
  IN _send([w EXCEPT !.batches =
                       [c \in 1..Len(@) |->
                          IF c = b THEN [@[c] EXCEPT !.timeout = t * 2 + Jitter(rnd), !.prev = t]
                          ELSE [@[c] EXCEPT !.timeout = t * 2 + Jitter(rnd)]]], b)

\* a mutant of OnRetryTimer: retries with the timeout it had
OnRetryTimerNoBackoff(w, b, rnd) ==
  _send([w EXCEPT !.batches[b].prev = w.batches[b].timeout], b)

\* the function _send gives setTimeout (lines 164-167)
OnRetryTimer(w, b, rnd) ==
  LET t == w.batches[b].timeout
  IN _send([w EXCEPT !.batches[b].timeout = t * 2 + Jitter(rnd),
                     !.batches[b].prev = t], b)

----------------------------------------------------------------------------
(* flush and track.                                                        *)

\* In Task, RunTasks and _send the world a call starts from is bound by a
\* set constructor, "CHOOSE r \in {f(w1) : w1 \in {e}} : TRUE", which is f(e)
\* with e evaluated once.

\* the closure a task of flush creates when taskMap runs it: it reads
\* self.accumulated[stream] then, and calls _send with firstRun = true
NewBatch(w, stream, g, i) ==
  [stream |-> stream, data |-> RefOf(w.acc, stream), timeout |-> retryTimeout,
   firstRun |-> TRUE, group |-> g, idx |-> i,
   phase |-> "new", cb |-> 0, result |-> NoResult,
   \* history: the calls of putEvents and what each was given last, the
   \* array's contents when the task read it, the last answer, the timeout of
   \* the attempt before, the last delay given to setTimeout and their sum
   attempts |-> 0, wire |-> <<>>, snapshot |-> Queue(w, stream), answer |-> NoResult,
   prev |-> 0, delay |-> 0, waited |-> 0]

\* one task of flush (lines 132-134 and 142-144)
Task(w, stream, g, i) ==
  CHOOSE r \in {_send(w1, Len(w.batches) + 1) :
                  w1 \in {[w EXCEPT !.batches = Append(@, NewBatch(w, stream, g, i))]}} : TRUE

RECURSIVE RunTasks(_, _, _, _)
RunTasks(w, tasks, g, i) ==
  IF i > Len(tasks) THEN w
  ELSE CHOOSE r \in {RunTasks(w1, tasks, g, i + 1) : w1 \in {Task(w, tasks[i], g, i)}} : TRUE

\* taskMap(tasks, callback): runs every task, in order, before it returns
taskMap(w, tasks) ==
  IF tasks = <<>> THEN w
  ELSE RunTasks([w EXCEPT !.groups =
                   Append(@, [n |-> Len(tasks),
                              results |-> [i \in 1..Len(tasks) |-> NoResult],
                              settled |-> 0, called |-> 0])],
                tasks, Len(w.groups) + 1, 1)

\* the keys of the dictionary, in for...in order
Keys(acc) == [i \in 1..Len(acc) |-> acc[i].k]

\* flush(targetStream) reads .length of self.accumulated[targetStream]
FlushThrows(w, target) == Truthy(target) /\ ~HasKey(w.acc, target.v)

\* a mutant of FlushTasks: a task for every stream, empty or not
FlushTasksAll(w, target) == IF Truthy(target) THEN <<target.v>> ELSE Keys(w.acc)

\* the streams flush builds a task for (lines 128-148)
FlushTasks(w, target) ==
  IF Truthy(target)
  THEN IF Len(Queue(w, target.v)) >= 1 THEN <<target.v>> ELSE <<>>
  ELSE SelectSeq(Keys(w.acc), LAMBDA k : Len(Queue(w, k)) >= 1)

\* Tracker.prototype.flush (lines 118-149), when it does not throw
flush(w, target) == taskMap(w, FlushTasks(w, target))

\* a mutant of TrackThrows: the guard forgets the data
TrackThrowsNoDataCheck(stream, data) ==
  CASE stream = Undefined -> "Error: required"
    [] LengthThrows(stream) -> "TypeError in track"
    [] Length(stream) = 0 -> "Error: required"
    [] OTHER -> "none"

\* the guard of track (line 69) and what it throws
TrackThrows(stream, data) ==
  CASE stream = Undefined -> "Error: required"
    [] LengthThrows(stream) -> "TypeError in track"
    [] Length(stream) = 0 -> "Error: required"
    [] LengthThrows(data) -> "TypeError in track"
    [] Length(data) = 0 -> "Error: required"
    [] OTHER -> "none"

\* a mutant of Push: unshift instead of push
PushFront(w, k, x) ==
  [w EXCEPT !.heap[RefOf(w.acc, k)] = <<[id |-> Len(w.accepted) + 1, s |-> x]>> \o @,
            !.accepted = Append(@, [stream |-> k, s |-> x])]

\* self.accumulated[stream].push(x), x tagged with the number of the call
Push(w, k, x) ==
  [w EXCEPT !.heap[RefOf(w.acc, k)] = Append(@, [id |-> Len(w.accepted) + 1, s |-> x]),
            !.accepted = Append(@, [stream |-> k, s |-> x])]

\* a mutant of Triggered: flushes one record late
TriggeredLate(ps, queue) ==
  Len(queue) > ps.bulkLen \/ _byteCount(queue) >= ps.bulkSize

\* the trigger of track (lines 91-92)
Triggered(ps, queue) ==
  Len(queue) >= ps.bulkLen \/ _byteCount(queue) >= ps.bulkSize

\* a mutant of track: a trigger flushes every stream
TrackFlushesAll(w, ps, stream, data) ==
  IF TrackThrows(stream, data) # "none"
  THEN [w |-> w, thrown |-> TrackThrows(stream, data)]
  ELSE LET k == stream.v
           w1 == IF HasKey(w.acc, k) THEN w
                 ELSE [w EXCEPT !.heap = Append(@, <<>>),
                                !.acc = SetKey(@, k, Len(w.heap) + 1)]
       IN IF data.t # "string" /\ StringifyThrows(data)
          THEN [w |-> w1, thrown |-> "Error: invalid data"]
          ELSE LET w2 == Push(w1, k, IF data.t # "string" THEN Stringify(data) ELSE data.v)
               IN [w |-> IF Triggered(ps, Queue(w2, k)) THEN flush(w2, Undefined) ELSE w2,
                   thrown |-> "none"]

\* Tracker.prototype.track (lines 67-95): the world it leaves and what it threw
track(w, ps, stream, data) ==
  IF TrackThrows(stream, data) # "none"
  THEN [w |-> w, thrown |-> TrackThrows(stream, data)]
  ELSE LET k == stream.v
           w1 == IF HasKey(w.acc, k) THEN w
                 ELSE [w EXCEPT !.heap = Append(@, <<>>),
                                !.acc = SetKey(@, k, Len(w.heap) + 1)]
       IN IF data.t # "string" /\ StringifyThrows(data)
          THEN [w |-> w1, thrown |-> "Error: invalid data"]
          ELSE LET w2 == Push(w1, k, IF data.t # "string" THEN Stringify(data) ELSE data.v)
               IN [w |-> IF Triggered(ps, Queue(w2, k)) THEN flush(w2, stream) ELSE w2,
                   thrown |-> "none"]

----------------------------------------------------------------------------
(* The state machine.                                                      *)

\* the arguments the model calls track and flush with
StreamNames == {<<"a">>, <<"b">>, <<"c">>}
StreamArgs == {Undefined, Null, Str(<<>>)} \cup {Str(k) : k \in StreamNames}
DataArgs ==
  {Undefined, Null, Str(<<>>), Arr(<<>>), Circular,
   Str(<<"a">>), Str(<<Euro, Emoji>>), Obj(<<>>)}
FlushArgs == {Undefined, Null} \cup {Str(k) : k \in StreamNames}

\* a caller with two streams that makes no call that throws
MainEnv ==
  [tracks |-> MaxTracks, failures |-> MaxFailures, throwing |-> FALSE,
   streams |-> {Str(<<"a">>), Str(<<"b">>)},
   data |-> {Str(<<"a">>), Str(<<Euro, Emoji>>)},
   targets |-> {Undefined, Str(<<"a">>), Str(<<"b">>)}]

\* a caller with three streams and one kind of record
AllEnv ==
  [tracks |-> AllTracks, failures |-> AllFailures, throwing |-> FALSE,
   streams |-> {Str(k) : k \in StreamNames},
   data |-> {Str(<<"a">>)},
   targets |-> {Null} \cup {Str(k) : k \in StreamNames}]

\* a caller that passes any argument, also those track and flush throw on
AnyArgsEnv ==
  [tracks |-> AnyArgsTracks, failures |-> AnyArgsFailures, throwing |-> TRUE,
   streams |-> {Undefined, Null, Str(<<>>), Str(<<"a">>)},
   data |-> DataArgs,
   targets |-> {Undefined, Null, Str(<<"a">>), Str(<<"b">>)}]

\* one stream and a transport that keeps failing
RetryEnv ==
  [tracks |-> RetryTracks, failures |-> RetryFailures, throwing |-> FALSE,
   streams |-> {Str(<<"a">>)},
   data |-> {Obj(<<>>)},
   targets |-> {Undefined, Str(<<"a">>)}]

\* a caller that flushes stream a by name only: the records of stream b
\* leave their array through a trigger or the interval timer
TimerEnv ==
  [tracks |-> TimerTracks, failures |-> TimerFailures, throwing |-> FALSE,
   streams |-> {Str(<<"a">>), Str(<<"b">>)},
   data |-> {Str(<<"a">>)},
   targets |-> {Str(<<"a">>)}]

\* a caller that constructs a second Tracker while it uses the first
SharedEnv ==
  [tracks |-> SharedTracks, failures |-> SharedFailures, throwing |-> FALSE,
   streams |-> {Str(<<"a">>)},
   data |-> {Str(<<"a">>), Str(<<Euro, Emoji>>)},
   targets |-> {Undefined, Str(<<"a">>)},
   second |-> TRUE]

\* writes a world back to the variables
Becomes(w) ==
  /\ accumulated' = w.acc
  /\ heap' = w.heap
  /\ batches' = w.batches
  /\ groups' = w.groups
  /\ accepted' = w.accepted
  /\ timer' = w.timer

InitWith(p, e) ==
  /\ params = Tracker(p)
  /\ accumulated = <<>>
  /\ heap = <<>>
  /\ batches = <<>>
  /\ groups = <<>>
  /\ accepted = <<>>
  /\ thrown = "none"
  /\ timer = TRUE
  /\ env = e

Init == InitWith(SmallBulkParams, MainEnv)

InitAll == InitWith(NoParams, AllEnv)

\* a Tracker constructed with a positive or with a negative size threshold
InitThresholds == \E p \in {SmallBulkParams, NegativeBulkParams} : InitWith(p, MainEnv)

InitAnyArgs == InitWith(SmallBulkParams, AnyArgsEnv)

InitRetry == InitWith(NoParams, RetryEnv)

InitTimer == InitWith(NoParams, TimerEnv)

InitShared == InitWith(SmallBulkParams, SharedEnv)

\* tracker.track(stream, data)
TrackCall(stream, data) ==
  LET r == track(World, params, stream, data)
      pushed == Len(r.w.accepted) > Len(accepted)
  IN /\ pushed => env.tracks > 0
     /\ r.thrown # "none" => env.throwing
     /\ Becomes(r.w)
     /\ thrown' = r.thrown
     /\ env' = IF pushed THEN [env EXCEPT !.tracks = @ - 1] ELSE env
     /\ UNCHANGED params

\* tracker.flush(target)
FlushCall(target) ==
  /\ FlushThrows(World, target) => env.throwing
  /\ IF FlushThrows(World, target)
     THEN /\ thrown' = "TypeError in flush"
          /\ UNCHANGED <<accumulated, heap, batches, groups, accepted, timer>>
     ELSE /\ thrown' = "none"
          /\ Becomes(flush(World, target))
  /\ UNCHANGED <<params, env>>

\* a mutant of Tick: the timer flushes the first stream of the dictionary only
TickFirstOnly ==
  /\ Becomes(flush(World, IF accumulated = <<>> THEN Undefined ELSE Str(accumulated[1].k)))
  /\ thrown' = "none"
  /\ UNCHANGED <<params, env>>

\* the interval timer of the constructor fires (lines 32-34): self.flush()
Tick ==
  /\ Becomes(flush(World, Undefined))
  /\ thrown' = "none"
  /\ UNCHANGED <<params, env>>

\* the transport answers the request of batch b
TransportReply(b, res) ==
  /\ batches[b].phase = "sent"
  /\ res.err # "null" => env.failures > 0
  /\ Becomes(OnReply(World, b, res))
  /\ env' = IF res.err # "null" THEN [env EXCEPT !.failures = @ - 1] ELSE env
  /\ UNCHANGED <<params, thrown>>

\* the retry timer of batch b fires
RetryTimer(b, rnd) ==
  /\ batches[b].phase = "waiting"
  /\ Becomes(OnRetryTimer(World, b, rnd))
  /\ UNCHANGED <<params, thrown, env>>

\* the object this.params refers to, as the options of another constructor call
ParamsObject(ps) ==
  [flushInterval |-> ps.flushInterval, bulkLen |-> ps.bulkLen, bulkSize |-> Kb(ps.bulkSize, 1)]

\* new Tracker(p) once more (lines 16-36); same: p is the object the first
\* Tracker was constructed with, which line 20 made its this.params. The
\* second Tracker has a dictionary and a timer of its own.
NewTracker(same) ==
  /\ env.second
  /\ params' = IF same THEN Tracker(ParamsObject(params)) ELSE params
  /\ env' = [env EXCEPT !.second = FALSE]
  /\ thrown' = "none"
  /\ UNCHANGED <<accumulated, heap, batches, groups, accepted, timer>>

Next ==
  \/ \E stream \in env.streams, data \in env.data : TrackCall(stream, data)
  \/ \E target \in env.targets : FlushCall(target)
  \/ Tick
  \/ \E b \in 1..Len(batches), res \in Answers : TransportReply(b, res)
  \/ \E b \in 1..Len(batches), rnd \in RandomSamples : RetryTimer(b, rnd)

Spec == Init /\ [][Next]_vars

SpecAll == InitAll /\ [][Next]_vars

SpecThresholds == InitThresholds /\ [][Next]_vars

SpecAnyArgs == InitAnyArgs /\ [][Next]_vars

SpecRetry == InitRetry /\ [][Next]_vars

NextShared ==
  \/ Next
  \/ \E same \in BOOLEAN : NewTracker(same)

SpecShared == InitShared /\ [][NextShared]_vars

\* the transport answers every request and every timer set for a retry
\* fires (XMLHttpRequest reaches DONE, setTimeout calls its function)
ReplyOf(b) == b \in 1..Len(batches) /\ \E res \in Answers : TransportReply(b, res)
RetryOf(b) == b \in 1..Len(batches) /\ \E rnd \in RandomSamples : RetryTimer(b, rnd)
SpecAnswered ==
  /\ InitRetry
  /\ [][Next]_vars
  /\ \A b \in 1..RetryTracks : WF_vars(ReplyOf(b)) /\ WF_vars(RetryOf(b))

\* setInterval keeps calling its function for as long as the Tracker lives
SpecTimer == InitTimer /\ [][Next]_vars /\ WF_vars(Tick)

----------------------------------------------------------------------------
(* What the claims speak of.                                               *)

\* the number a record was given when track pushed it: accepted[id] is it
RecordIds == 1..Len(accepted)

\* the positions of record id in an array
Positions(array, id) == {p \in 1..Len(array) : array[p].id = id}

\* where record id is: <<"live", key index, position>> in the array a key of
\* the dictionary refers to, <<"batch", b, position>> in the array a _send
\* closure holds
LivePlaces(id) ==
  UNION {{<<"live", i, p>> : p \in Positions(heap[accumulated[i].ref], id)} :
         i \in 1..Len(accumulated)}
BatchPlaces(id) ==
  UNION {{<<"batch", b, p>> : p \in Positions(heap[batches[b].data], id)} :
         b \in 1..Len(batches)}

\* the stream and the array of a place
PlaceStream(pl) == IF pl[1] = "live" THEN accumulated[pl[2]].k ELSE batches[pl[2]].stream
PlaceArray(pl) ==
  IF pl[1] = "live" THEN heap[accumulated[pl[2]].ref] ELSE heap[batches[pl[2]].data]

\* batch b has been detached and its callback has not been called
InFlight(b) == batches[b].phase \in {"sent", "waiting"}

\* the batches whose call of putEvents was given record id
SentIn(id) == {b \in 1..Len(batches) : Positions(batches[b].wire, id) # {}}

Min(S) == CHOOSE x \in S : \A y \in S : x <= y

----------------------------------------------------------------------------
(* C1: every record track accepted is in exactly one place, the live array *)
(* of its stream or the array of exactly one detached batch, as the string *)
(* track stored; and the array of a batch in flight holds what it held     *)
(* when it was detached, so a record tracked meanwhile is not in it.       *)
C1_ExactlyOnePlace ==
  /\ \A id \in RecordIds :
       /\ Cardinality(LivePlaces(id) \cup BatchPlaces(id)) = 1
       /\ \A pl \in LivePlaces(id) \cup BatchPlaces(id) :
            /\ PlaceStream(pl) = accepted[id].stream
            /\ PlaceArray(pl)[pl[3]].s = accepted[id].s
  /\ \A b \in 1..Len(batches) : InFlight(b) => heap[batches[b].data] = batches[b].snapshot

\* a batch waits for its retry while its stream's live array holds a record
\* tracked after the batch was detached
C1_TrackedDuringFlight ==
  \E b \in 1..Len(batches) :
    /\ batches[b].phase = "waiting"
    /\ HasKey(accumulated, batches[b].stream)
    /\ \E p \in 1..Len(Queue(World, batches[b].stream)) :
         \A q \in 1..Len(batches[b].snapshot) :
           Queue(World, batches[b].stream)[p].id > batches[b].snapshot[q].id

(* C2: every batch given to putEvents lists its records in the order of    *)
(* the track calls, and of two records of one stream the earlier is first  *)
(* given to putEvents in the same batch or in an earlier one, never later. *)
C2_OrderPreserved ==
  /\ \A b \in 1..Len(batches) :
       LET wire == batches[b].wire
       IN /\ \A p, q \in 1..Len(wire) : p < q => wire[p].id < wire[q].id
          /\ \A p \in 1..Len(wire) :
               /\ wire[p].id \in RecordIds
               /\ accepted[wire[p].id] = [stream |-> batches[b].stream, s |-> wire[p].s]
  /\ \A i, j \in RecordIds :
       (i < j /\ accepted[i].stream = accepted[j].stream /\ SentIn(j) # {})
         => (SentIn(i) # {} /\ Min(SentIn(i)) <= Min(SentIn(j)))

\* two batches of one stream have been given to putEvents, one of them with
\* two records or more
C2_TwoBatchesOfAStream ==
  \E b1, b2 \in 1..Len(batches) :
    /\ b1 < b2
    /\ batches[b1].stream = batches[b2].stream
    /\ Len(batches[b1].wire) >= 2
    /\ Len(batches[b2].wire) >= 1

----------------------------------------------------------------------------
(* Steps of track, seen from the variables: track accepted a record when   *)
(* the history of accepted records grew.                                   *)

TrackStep == Len(accepted') = Len(accepted) + 1

\* the stream of the record the step accepted, and the stream's array as
\* it is once the record is pushed and before the trigger is looked at
NewStream == accepted'[Len(accepted')].stream
QueueBefore(k) == IF HasKey(accumulated, k) THEN Queue(World, k) ELSE <<>>
QueueAfterPush ==
  Append(QueueBefore(NewStream), [id |-> Len(accepted'), s |-> accepted'[Len(accepted')].s])

\* the step made exactly one call of putEvents: for a new batch of stream k
\* that carries array, and it left k's live array empty
OneFlushOf(k, array) ==
  /\ Len(batches') = Len(batches) + 1
  /\ \A b \in 1..Len(batches) : batches'[b] = batches[b]
  /\ batches'[Len(batches')].stream = k
  /\ batches'[Len(batches')].wire = array
  /\ batches'[Len(batches')].attempts = 1
  /\ batches'[Len(batches')].phase = "sent"
  /\ heap'[RefOf(accumulated', k)] = <<>>

\* the step made no call of putEvents and k's live array is array
NoFlushOf(k, array) ==
  /\ batches' = batches
  /\ heap'[RefOf(accumulated', k)] = array

\* the UTF-8 bytes of a string, and of an array of strings written with a
\* "," between them
RECURSIVE Utf8Length(_)
Utf8Length(cs) == IF cs = <<>> THEN 0 ELSE Len(Utf8(Head(cs))) + Utf8Length(Tail(cs))
RECURSIVE SerializedSize(_)
SerializedSize(array) ==
  IF array = <<>> THEN 0
  ELSE Utf8Length(array[Len(array)].s)
       + (IF Len(array) = 1 THEN 0 ELSE 1 + SerializedSize(SubSeq(array, 1, Len(array) - 1)))

(* C3: a track call that finds bulkLen - 1 records in its stream's array   *)
(* makes exactly one call of putEvents, with those records and its own in  *)
(* call order, and leaves the array empty; a track call that leaves fewer  *)
(* than bulkLen records, of fewer than bulkSize bytes, makes none.         *)
C3_CountTrigger ==
  [][TrackStep =>
       IF Len(QueueBefore(NewStream)) = params.bulkLen - 1
       THEN /\ OneFlushOf(NewStream, QueueAfterPush)
            /\ Len(batches'[Len(batches')].wire) = params.bulkLen
       ELSE (Len(QueueAfterPush) < params.bulkLen
             /\ SerializedSize(QueueAfterPush) < params.bulkSize)
               => NoFlushOf(NewStream, QueueAfterPush)]_vars

\* with bulkLen 3, three track calls to one stream and nothing else: one
\* batch of the three records has been given to putEvents, the array is empty
C3_ThirdTrackFlushed ==
  /\ params.bulkLen = 3
  /\ Len(accepted) = 3
  /\ Len(batches) = 1
  /\ batches[1].attempts = 1
  /\ [p \in 1..3 |-> batches[1].wire[p].s] = [p \in 1..3 |-> accepted[p].s]
  /\ \A p \in 1..3 : accepted[p].stream = batches[1].stream
  /\ Queue(World, batches[1].stream) = <<>>

(* C4: a track call that leaves fewer than bulkLen records in its stream's *)
(* array flushes the stream if and only if the array, written with ","     *)
(* between its strings, is bulkSize bytes of UTF-8 or more.                *)
C4_SizeTrigger ==
  [][(TrackStep /\ Len(QueueAfterPush) < params.bulkLen) =>
       IF SerializedSize(QueueAfterPush) >= params.bulkSize
       THEN OneFlushOf(NewStream, QueueAfterPush)
       ELSE NoFlushOf(NewStream, QueueAfterPush)]_vars

\* a batch of fewer than bulkLen records and bulkSize bytes or more was
\* flushed, whose last record alone made it reach bulkSize
C4_SizeTriggeredBatch ==
  \E b \in 1..Len(batches) :
    LET wire == batches[b].wire
    IN /\ Len(wire) >= 2
       /\ Len(wire) < params.bulkLen
       /\ SerializedSize(wire) >= params.bulkSize
       /\ SerializedSize(SubSeq(wire, 1, Len(wire) - 1)) < params.bulkSize
       /\ Utf8Length(wire[Len(wire)].s) < params.bulkSize

----------------------------------------------------------------------------
\* an argument that is missing, and one that is empty: of length 0
Missing(x) == x \in {Undefined, Null}
Empty(x) == x \in {Str(<<>>), Arr(<<>>)}

----------------------------------------------------------------------------
(* Steps of one batch, seen from the variables.                            *)

\* the step gave batch b the answer of the transport call it was waiting for
ReplyStep(b) == batches[b].phase = "sent" /\ batches'[b].phase # "sent"

\* the step ran batch b's retry timer
RetryStep(b) == batches[b].phase = "waiting" /\ batches'[b].phase # "waiting"

\* an error the answer's status marks as a server failure, and any other error
ServerError(res) == res.err \notin {"null", "pending"} /\ StatusGE(res.status, 500)
OtherError(res) == res.err \notin {"null", "pending"} /\ ~StatusGE(res.status, 500)

\* the step left batch b as it was: no call of putEvents, no timer, no callback
Settled(b) == batches'[b] = batches[b]

(* C6: when a batch's transport call answers with an error whose status is *)
(* not >= 500 (401, or no status), the batch's callback is called with     *)
(* that error, once, and from then on no step calls putEvents, sets a      *)
(* timer or calls the callback for that batch.                             *)
C6_TerminalErrorOnce ==
  [][\A b \in 1..Len(batches) :
       /\ (ReplyStep(b) /\ OtherError(batches'[b].answer))
            => /\ batches'[b].phase = "done"
               /\ batches'[b].cb = batches[b].cb + 1
               /\ batches'[b].cb = 1
               /\ batches'[b].result = batches'[b].answer
               /\ batches'[b].attempts = batches[b].attempts
       /\ (batches[b].phase = "done" /\ OtherError(batches[b].answer)) => Settled(b)]_vars

\* a batch ended on the error of status 401 and was left alone while a
\* later batch was flushed and answered
C6_TerminalErrorReported ==
  \E b1, b2 \in 1..Len(batches) :
    /\ b1 < b2
    /\ batches[b1].answer = Err401
    /\ batches[b1].result = Err401
    /\ batches[b1].cb = 1
    /\ batches[b1].attempts = 1
    /\ batches[b2].phase = "done"

(* C7: when a batch's transport call answers with an error of status >= 500 *)
(* and the batch's timeout is below the ceiling, a timer is set for the    *)
(* timeout; when the timer runs, putEvents is called again with the same   *)
(* records and a timeout strictly greater than the one before.             *)
C7_RetryBackoffGrows ==
  [][\A b \in 1..Len(batches) :
       /\ (ReplyStep(b) /\ ServerError(batches'[b].answer)
             /\ batches[b].timeout < RetryCeiling)
            => /\ batches'[b].phase = "waiting"
               /\ batches'[b].delay = batches[b].timeout
               /\ batches'[b].cb = 0
       /\ RetryStep(b)
            => /\ batches'[b].phase = "sent"
               /\ batches'[b].attempts = batches[b].attempts + 1
               /\ batches'[b].wire = batches[b].wire
               /\ batches'[b].stream = batches[b].stream
               /\ batches'[b].prev = batches[b].timeout
               /\ batches'[b].timeout > batches[b].timeout]_vars

\* a batch is at its third transport call or a later one, after two growths
\* of its timeout
C7_RetriedTwice ==
  \E b \in 1..Len(batches) :
    /\ batches[b].attempts >= 3
    /\ batches[b].phase = "sent"
    /\ batches[b].prev > retryTimeout
    /\ batches[b].timeout > batches[b].prev

(* C8: when a batch has waited for more than the ceiling in all and its    *)
(* transport call answers with an error of status >= 500 again, the        *)
(* callback is called once with the error of status 408, which is not the  *)
(* transport's error, and from then on no step calls putEvents for it.     *)
C8_RetryExhaustion ==
  [][\A b \in 1..Len(batches) :
       /\ (ReplyStep(b) /\ ServerError(batches'[b].answer)
             /\ batches[b].waited > RetryCeiling)
            => /\ batches'[b].phase = "done"
               /\ batches'[b].result = Timeout408
               /\ batches'[b].result # batches'[b].answer
               /\ batches'[b].cb = 1
               /\ batches'[b].attempts = batches[b].attempts
       /\ (batches[b].phase = "done" /\ batches[b].result = Timeout408) => Settled(b)]_vars

\* a batch was given up after waiting for more than the ceiling
C8_GaveUp ==
  \E b \in 1..Len(batches) :
    /\ batches[b].phase = "done"
    /\ batches[b].answer = Err500
    /\ batches[b].result = Timeout408
    /\ batches[b].waited > RetryCeiling
    /\ batches[b].cb = 1

----------------------------------------------------------------------------
\* the streams whose array holds a record, and the batches a call of flush
\* added to the ones there are
NonEmptyStreams == {k \in StreamNames : HasKey(accumulated, k) /\ Queue(World, k) # <<>>}
NewBatches(w) == SubSeq(w.batches, Len(batches) + 1, Len(w.batches))
OldBatches(w) == SubSeq(w.batches, 1, Len(batches))

\* the batches flush made under aggregate callback g
BatchesOf(g) == {b \in 1..Len(batches) : batches[b].group = g}

(* C9: in every state the Tracker reaches, flush with no argument calls    *)
(* putEvents once for each stream whose array holds a record, with that    *)
(* array, and not at all for the other streams, touching nothing else;     *)
(* the callback flush was given is called once, when all the batches of    *)
(* the call have called back, with one result for each of them.            *)
C9_FlushAll ==
  /\ \A target \in {Undefined, Null} :
       LET w == flush(World, target)
           new == NewBatches(w)
       IN /\ OldBatches(w) = batches
          /\ Len(new) = Cardinality(NonEmptyStreams)
          /\ \A k \in NonEmptyStreams :
               \E i \in 1..Len(new) :
                 /\ new[i].stream = k
                 /\ new[i].wire = Queue(World, k)
                 /\ new[i].attempts = 1
                 /\ new[i].group = Len(groups) + 1
                 /\ Queue(w, k) = <<>>
          /\ \A i \in 1..Len(new) : new[i].stream \in NonEmptyStreams
          /\ Keys(w.acc) = Keys(accumulated)
          /\ w.accepted = accepted
          /\ IF NonEmptyStreams = {}
             THEN w = World
             ELSE /\ Len(w.groups) = Len(groups) + 1
                  /\ w.groups[Len(w.groups)].n = Cardinality(NonEmptyStreams)
                  /\ w.groups[Len(w.groups)].called = 0
  /\ \A g \in 1..Len(groups) :
       /\ Cardinality(BatchesOf(g)) = groups[g].n
       /\ \A i \in 1..groups[g].n : \E b \in BatchesOf(g) : batches[b].idx = i
       /\ groups[g].called <= 1
       /\ groups[g].called = 1 <=> \A b \in BatchesOf(g) : batches[b].phase = "done"
       /\ groups[g].called = 1 =>
            /\ DOMAIN groups[g].results = 1..groups[g].n
            /\ \A b \in BatchesOf(g) : groups[g].results[batches[b].idx] = batches[b].result

\* stream c was flushed and is empty, then a flush with no argument sent two
\* batches, for a and for b, and its callback has been called with two results
C9_TwoOfThreeFlushed ==
  /\ Len(batches) = 3
  /\ Len(groups) = 2
  /\ batches[1].stream = <<"c">>
  /\ {batches[2].stream, batches[3].stream} = {<<"a">>, <<"b">>}
  /\ batches[2].group = 2 /\ batches[3].group = 2
  /\ Queue(World, <<"c">>) = <<>>
  /\ groups[2].n = 2
  /\ groups[2].called = 1
  /\ \A i \in 1..2 : groups[2].results[i] # NoResult

(* C10: flush(stream) never throws; it calls putEvents for the named       *)
(* stream only, leaves the arrays of the other streams as they are, and    *)
(* does nothing at all when the named stream's array is empty.             *)
C10_FlushStream ==
  /\ thrown # "TypeError in flush"
  /\ \A k \in StreamNames :
       HasKey(accumulated, k) =>
         LET w == flush(World, Str(k))
         IN /\ \A i \in 1..Len(NewBatches(w)) : NewBatches(w)[i].stream = k
            /\ OldBatches(w) = batches
            /\ \A j \in StreamNames \ {k} :
                 HasKey(accumulated, j) => Queue(w, j) = Queue(World, j)
            /\ Queue(World, k) = <<>> => w = World

----------------------------------------------------------------------------
(* C11: no two batches of one stream are in flight together: while a batch *)
(* of a stream waits for its answer or its retry timer, no other batch of  *)
(* that stream has been given to putEvents and not called back.            *)
C11_OneInFlightPerStream ==
  \A b1, b2 \in 1..Len(batches) :
    (b1 < b2 /\ batches[b1].stream = batches[b2].stream)
      => ~(InFlight(b1) /\ InFlight(b2))

(* C12: the Tracker's one interval timer calls flush with no argument at   *)
(* every tick, so while it keeps ticking every record track accepted is    *)
(* given to putEvents sooner or later, trigger or not.                     *)
C12_TimerFlushesEverything ==
  \A id \in 1..TimerTracks : (Len(accepted) >= id) ~> (SentIn(id) # {})

\* stream b was never flushed by name and never reached a trigger, and a
\* record of it was given to putEvents
C12_FlushedByTimer ==
  \E b \in 1..Len(batches) :
    /\ batches[b].stream = <<"b">>
    /\ Str(<<"b">>) \notin env.targets
    /\ Len(batches[b].wire) >= 1
    /\ Len(batches[b].wire) < params.bulkLen
    /\ SerializedSize(batches[b].wire) < params.bulkSize

----------------------------------------------------------------------------
(* C13: the thresholds and the interval a Tracker works with are the ones  *)
(* its constructor computed from its options, whatever other Trackers are  *)
(* constructed, also from the same options object.                         *)
C13_ConfigurationConstant == params = Tracker(SmallBulkParams)

----------------------------------------------------------------------------
(* The Tracker of dist/sdk.js (lines 340-469), on the same variables: its  *)
(* dictionary, the arrays, one batch per call of send that did not come    *)
(* from a retry, and the timer setTimeout sets. It has no taskMap; groups  *)
(* stays empty. thrown also holds what track gave its callback at once.    *)

\* the constructor (lines 340-350); an absent option reads as 0
DistTracker(p) ==
  [flushInterval |-> IF p.flushInterval # 0 THEN p.flushInterval * 1000 ELSE 10000,
   bulkLen |-> IF p.bulkLen # 0 THEN p.bulkLen ELSE 20,
   bulkSize |-> IF p.bulkSize.num # 0 THEN (p.bulkSize.num * 1024) \div p.bulkSize.den
                ELSE 5 * 1024]

\* the options the model constructs it with: a count threshold of 2
DistParams == [flushInterval |-> 0, bulkLen |-> 2, bulkSize |-> Kb(0, 1)]

\* JSON.parse(data) of line 406: of the values the model uses only the
\* string "{}" is JSON; for the others it throws and line 408 pushes data
JSONParseThrows(data) == data # Str(<<"{", "}">>)
JSONParse(data) == Obj(<<>>)
DistStored(data) == IF JSONParseThrows(data) THEN data ELSE JSONParse(data)

\* JSON.stringify of one element of an array and of the array (line 412)
DistStringifyValue(x) ==
  CASE x.t = "string" -> <<"\"">> \o x.v \o <<"\"">>
    [] x.t = "object" -> Stringify(x)
    [] x.t = "array" -> <<"[", "]">>
    [] OTHER -> <<"n", "u", "l", "l">>
RECURSIVE DistStringifyItems(_)
DistStringifyItems(array) ==
  IF array = <<>> THEN <<>>
  ELSE DistStringifyValue(array[1].s)
       \o (IF Len(array) = 1 THEN <<>> ELSE <<",">> \o DistStringifyItems(Tail(array)))
DistStringifyThrows(array) == \E i \in 1..Len(array) : array[i].s.t = "circular"
DistStringify(array) == <<"[">> \o DistStringifyItems(array) \o <<"]">>

\* the answer the callback gets when send gives up (line 456)
DistTimeout == [err |-> "Timeout - No response from server", data |-> "null", status |-> NoValue]

\* 60 * 60 * 1000
DistRetryCeiling == 60 * 60 * 1000

\* self.callback(err, body) as send's function calls it
DistCallback(w, b, res) ==
  [w EXCEPT !.batches[b].phase = "done", !.batches[b].cb = @ + 1, !.batches[b].result = res]

\* the function send gives putEvents (lines 447-466); the status it looks at
\* is err.status; timeout is undefined when flush(stream) called send
DistOnReply(w, b, res) ==
  IF res.err # "null"
  THEN IF StatusGE(res.status, 500)
       THEN IF w.batches[b].timeout # NoValue /\ w.batches[b].timeout < DistRetryCeiling
            THEN Schedule(Answered(w, b, res), b)
            ELSE DistCallback(Answered(w, b, res), b, DistTimeout)
       ELSE DistCallback(Answered(w, b, res), b, res)
  ELSE DistCallback(Answered(w, b, res), b, res)

\* IronSourceAtom.prototype.putEvents as send calls it (line 446): the
\* request carries the array as it is at the call
DistPutEvents(w, b) ==
  LET data == w.heap[w.batches[b].data]
      w1 == [w EXCEPT !.batches[b].attempts = @ + 1, !.batches[b].wire = data]
      sync(msg) == [err |-> msg, data |-> "null", status |-> NoValue]
  IN IF w.batches[b].stream = <<>> THEN DistOnReply(w1, b, sync("Stream is required"))
     ELSE IF Len(data) = 0
          THEN DistOnReply(w1, b, sync("Data (must be not empty array) is required"))
          ELSE [w1 EXCEPT !.batches[b].phase = "sent"]

\* send(stream, data, timeout) (line 445), called by flush for a new batch
DistSend(w, k, t) ==
  CHOOSE r \in {DistPutEvents(w1, Len(w.batches) + 1) :
                  w1 \in {[w EXCEPT !.batches =
                             Append(@, [NewBatch(w, k, 0, 0) EXCEPT !.timeout = t,
                                                                    !.firstRun = FALSE])]}} : TRUE

\* the function send gives setTimeout (lines 450-453): flush(stream, data,
\* timeout) calls send with the same array
DistOnRetryTimer(w, b) ==
  DistPutEvents([w EXCEPT !.batches[b].timeout = @ * 2,
                          !.batches[b].prev = w.batches[b].timeout], b)

\* flush(batchStream) reads .length of self.accumulated[batchStream] (line 435)
DistFlushThrows(w, target) == Truthy(target) /\ ~HasKey(w.acc, target.v)

\* the loop of flush() (lines 440-443), from the i-th key on: a non-empty
\* array goes to send with timeout 1000, and every key gets a new array
RECURSIVE DistFlushAll(_, _)
DistFlushAll(w, i) ==
  IF i > Len(w.acc) THEN w
  ELSE LET k == w.acc[i].k
           sent == IF Len(Queue(w, k)) >= 1 THEN DistSend(w, k, 1000) ELSE w
       IN CHOOSE r \in {DistFlushAll(w1, i + 1) :
                          w1 \in {[sent EXCEPT !.heap = Append(@, <<>>),
                                               !.acc = SetKey(@, k, Len(sent.heap) + 1)]}} : TRUE

\* Tracker.prototype.flush of dist/sdk.js as its callers use it (lines
\* 424-444): flush(stream) sends the stream's array and keeps it, flush()
\* sends and replaces every array and forgets the timer
DistFlush(w, target) ==
  IF Truthy(target)
  THEN IF Len(Queue(w, target.v)) >= 1 THEN DistSend(w, target.v, NoValue) ELSE w
  ELSE [DistFlushAll(w, 1) EXCEPT !.timer = FALSE]

\* the guard of track (line 401): stream == undefined || data == undefined
DistTrackRejects(stream, data) ==
  stream \in {Undefined, Null} \/ data \in {Undefined, Null}

\* the trigger of track (line 412)
DistTriggered(ps, queue) ==
  Len(queue) >= ps.bulkLen \/ StringLength(DistStringify(queue)) * 2 >= ps.bulkSize

\* Tracker.prototype.track of dist/sdk.js (lines 395-422): the world it
\* leaves and what it threw or gave its callback
DistTrack(w, ps, stream, data) ==
  IF DistTrackRejects(stream, data)
  THEN [w |-> w, thrown |-> "callback: Stream or data is empty"]
  ELSE LET k == stream.v
           w1 == IF HasKey(w.acc, k) THEN w
                 ELSE [w EXCEPT !.heap = Append(@, <<>>),
                                !.acc = SetKey(@, k, Len(w.heap) + 1)]
           w2 == Push(w1, k, DistStored(data))
       IN IF Len(Queue(w2, k)) < ps.bulkLen /\ DistStringifyThrows(Queue(w2, k))
          THEN [w |-> w2, thrown |-> "TypeError in track"]
          ELSE [w |-> IF DistTriggered(ps, Queue(w2, k)) THEN DistFlush(w2, stream)
                      ELSE [w2 EXCEPT !.timer = TRUE],
                thrown |-> "none"]

\* a caller of the dist Tracker, also with arguments that are empty, and
\* the calls of flush it still makes
DistEnv ==
  [tracks |-> DistTracks, failures |-> DistFailures, throwing |-> TRUE,
   streams |-> {Undefined, Str(<<>>), Str(<<"a">>)},
   data |-> {Str(<<>>), Str(<<"{", "}">>)},
   targets |-> {Undefined, Str(<<"a">>)},
   flushes |-> DistFlushes]

InitDist ==
  /\ params = DistTracker(DistParams)
  /\ accumulated = <<>>
  /\ heap = <<>>
  /\ batches = <<>>
  /\ groups = <<>>
  /\ accepted = <<>>
  /\ thrown = "none"
  /\ timer = FALSE
  /\ env = DistEnv

\* tracker.track(stream, data)
DistTrackCall(stream, data) ==
  LET r == DistTrack(World, params, stream, data)
  IN /\ Len(r.w.accepted) > Len(accepted) => env.tracks > 0
     /\ Becomes(r.w)
     /\ thrown' = r.thrown
     /\ env' = IF Len(r.w.accepted) > Len(accepted) THEN [env EXCEPT !.tracks = @ - 1] ELSE env
     /\ UNCHANGED params

\* tracker.flush(target)
DistFlushCall(target) ==
  /\ env.flushes > 0
  /\ IF DistFlushThrows(World, target)
     THEN /\ thrown' = "TypeError in flush"
          /\ UNCHANGED <<accumulated, heap, batches, groups, accepted, timer>>
     ELSE /\ thrown' = "none"
          /\ Becomes(DistFlush(World, target))
  /\ env' = [env EXCEPT !.flushes = @ - 1]
  /\ UNCHANGED params

\* the timer of track fires (lines 418-420): self.flush()
DistTimerFires ==
  /\ timer
  /\ Becomes(DistFlush(World, Undefined))
  /\ thrown' = "none"
  /\ UNCHANGED <<params, env>>

\* the transport answers the request of batch b
DistTransportReply(b, res) ==
  /\ batches[b].phase = "sent"
  /\ res.err # "null" => env.failures > 0
  /\ Becomes(DistOnReply(World, b, res))
  /\ env' = IF res.err # "null" THEN [env EXCEPT !.failures = @ - 1] ELSE env
  /\ UNCHANGED <<params, thrown>>

\* the retry timer of batch b fires
DistRetryTimer(b) ==
  /\ batches[b].phase = "waiting"
  /\ Becomes(DistOnRetryTimer(World, b))
  /\ UNCHANGED <<params, thrown, env>>

NextDist ==
  \/ \E stream \in env.streams, data \in env.data : DistTrackCall(stream, data)
  \/ \E target \in env.targets : DistFlushCall(target)
  \/ DistTimerFires
  \/ \E b \in 1..Len(batches), res \in Answers : DistTransportReply(b, res)
  \/ \E b \in 1..Len(batches) : DistRetryTimer(b)

SpecDist == InitDist /\ [][NextDist]_vars

(* C14: the Tracker of dist/sdk.js never accumulates anything for empty    *)
(* input: no key of its dictionary is the empty string, and no record it   *)
(* pushed has an empty stream or empty data.                               *)
C14_DistRejectsEmpty ==
  /\ \A i \in 1..Len(accumulated) : accumulated[i].k # <<>>
  /\ \A i \in 1..Len(accepted) : accepted[i].stream # <<>> /\ ~Empty(accepted[i].s)

(* C19: in the Tracker of dist/sdk.js, the track call that finds           *)
(* bulkLen - 1 records in its stream's array calls putEvents once, with    *)
(* those records and its own, and leaves the stream's array empty.         *)
C19_DistCountTrigger ==
  [][(TrackStep /\ Len(QueueBefore(NewStream)) = params.bulkLen - 1) =>
       /\ Len(batches') = Len(batches) + 1
       /\ batches'[Len(batches')].stream = NewStream
       /\ batches'[Len(batches')].wire = QueueAfterPush
       /\ batches'[Len(batches')].attempts = 1
       /\ heap'[RefOf(accumulated', NewStream)] = <<>>]_vars

----------------------------------------------------------------------------
(* C15: what a batch holds is fixed when it is detached: every call of     *)
(* putEvents for it, the first and each retry, is given the records that   *)
(* were in the stream's array when the batch was detached, and the array   *)
(* the batch holds keeps those records while the batch is in flight.       *)
C15_BatchImmutable ==
  [][\A b \in 1..Len(batches') :
       /\ batches'[b].attempts >= 1 => batches'[b].wire = batches'[b].snapshot
       /\ batches'[b].phase \in {"sent", "waiting"}
            => heap'[batches'[b].data] = batches'[b].snapshot
       /\ b <= Len(batches) => /\ batches'[b].snapshot = batches[b].snapshot
                               /\ batches'[b].data = batches[b].data]_vars

\* a batch was sent a second time with the records it was detached with,
\* while its stream's array holds a record track accepted later
C15_RetriedAfterLaterTrack ==
  \E b \in 1..Len(batches) :
    /\ batches[b].attempts >= 2
    /\ batches[b].wire = batches[b].snapshot
    /\ \E id \in RecordIds :
         /\ accepted[id].stream = batches[b].stream
         /\ \A p \in 1..Len(batches[b].snapshot) : batches[b].snapshot[p].id < id
         /\ LivePlaces(id) # {}

----------------------------------------------------------------------------
(* C16: when every request is answered and every retry timer fires, each   *)
(* batch's callback is called, once: with the transport's success, with    *)
(* the transport's error when its status is not >= 500, or with the 408    *)
(* error after answers of status >= 500.                                   *)
C16_EveryBatchCompletes ==
  /\ [](\A b \in 1..Len(batches) :
          /\ batches[b].cb <= 1
          /\ batches[b].cb = 1 <=> batches[b].phase = "done"
          /\ batches[b].phase = "done" =>
               \/ batches[b].result = batches[b].answer /\ batches[b].answer.err = "null"
               \/ batches[b].result = batches[b].answer /\ OtherError(batches[b].answer)
               \/ batches[b].result = Timeout408 /\ ServerError(batches[b].answer))
  /\ \A b \in 1..RetryTracks :
       (Len(batches) >= b)
         ~> (Len(batches) >= b /\ batches[b].phase = "done" /\ batches[b].cb = 1)

\* a batch was answered with status >= 500 until its timeout passed the
\* ceiling, and its callback got the 408 error
C16_EndedByCeiling ==
  \E b \in 1..Len(batches) :
    /\ batches[b].phase = "done"
    /\ batches[b].result = Timeout408
    /\ batches[b].timeout >= RetryCeiling
    /\ batches[b].attempts >= 11

----------------------------------------------------------------------------
(* C17: a track call for stream s leaves the array of every other stream   *)
(* as it is and calls putEvents for no other stream, whatever the other    *)
(* arrays hold.                                                            *)
C17_TrackTouchesOneStream ==
  [][TrackStep =>
       /\ \A j \in StreamNames \ {NewStream} :
            /\ HasKey(accumulated', j) <=> HasKey(accumulated, j)
            /\ HasKey(accumulated, j) =>
                 /\ RefOf(accumulated', j) = RefOf(accumulated, j)
                 /\ heap'[RefOf(accumulated', j)] = Queue(World, j)
       /\ \A b \in 1..Len(batches') :
            IF b <= Len(batches) THEN batches'[b] = batches[b]
            ELSE batches'[b].stream = NewStream]_vars

\* a track call flushed its stream while the array of another stream held
\* a record accepted before, which is still there
C17_OtherStreamWaiting ==
  \E b \in 1..Len(batches), id \in RecordIds :
    /\ accepted[id].stream # batches[b].stream
    /\ LivePlaces(id) # {}
    /\ \E p \in 1..Len(batches[b].snapshot) : id < batches[b].snapshot[p].id
    /\ \/ Len(batches[b].snapshot) >= params.bulkLen
       \/ SerializedSize(batches[b].snapshot) >= params.bulkSize

(* C18: the keys of the dictionary only grow: every step keeps the keys    *)
(* there are, in their order, and a batch that is detached leaves its      *)
(* stream's key in place, with a new and empty array.                      *)
C18_KeysOnlyGrow ==
  [][/\ Len(accumulated') >= Len(accumulated)
     /\ \A i \in 1..Len(accumulated) : accumulated'[i].k = accumulated[i].k
     /\ \A b \in Len(batches) + 1..Len(batches') :
          /\ HasKey(accumulated', batches'[b].stream)
          /\ heap'[RefOf(accumulated', batches'[b].stream)] = <<>>
          /\ RefOf(accumulated', batches'[b].stream) # batches'[b].data
          /\ RefOf(accumulated', batches'[b].stream) > Len(heap)]_vars

\* three streams were tracked and flushed: the three keys are there, each
\* with an empty array, and a callback has been called
C18_KeysKeptAfterFlush ==
  /\ Len(accumulated) = 3
  /\ \A i \in 1..3 : heap[accumulated[i].ref] = <<>>
  /\ \A k \in StreamNames : \E b \in 1..Len(batches) : batches[b].stream = k
  /\ \E b \in 1..Len(batches) : batches[b].phase = "done"

(* C20: putEvents is never given an empty array: every batch handed to     *)
(* _send holds a record at least, at its first call and at every retry.    *)
C20_NoEmptyBatch ==
  \A b \in 1..Len(batches) :
    /\ Len(batches[b].snapshot) >= 1
    /\ Len(heap[batches[b].data]) >= 1
    /\ batches[b].attempts >= 1 => Len(batches[b].wire) >= 1

\* one batch was flushed by a trigger of track and another, below both
\* thresholds, by a call of flush or the timer, and an array is empty again
C20_TriggerAndFlushBatches ==
  \E b1, b2 \in 1..Len(batches) :
    /\ \/ Len(batches[b1].snapshot) >= params.bulkLen
       \/ SerializedSize(batches[b1].snapshot) >= params.bulkSize
    /\ Len(batches[b2].snapshot) < params.bulkLen
    /\ SerializedSize(batches[b2].snapshot) < params.bulkSize
    /\ batches[b1].wire = batches[b1].snapshot
    /\ batches[b2].wire = batches[b2].snapshot
    /\ \E i \in 1..Len(accumulated) : heap[accumulated[i].ref] = <<>>

----------------------------------------------------------------------------
(* C21: when track has returned, the array of every stream holds fewer     *)
(* than bulkLen records and fewer than bulkSize bytes, and so no batch     *)
(* given to putEvents holds more than bulkLen records; the first for a     *)
(* Tracker whose bulkLen is 1 at least and whose bulkSize is positive, the *)
(* second for any bulkSize.                                                *)
QueuesBelow ==
  \A i \in 1..Len(accumulated) :
    /\ Len(heap[accumulated[i].ref]) < params.bulkLen
    /\ SerializedSize(heap[accumulated[i].ref]) < params.bulkSize

BatchesWithin ==
  \A b \in 1..Len(batches) :
    /\ Len(batches[b].snapshot) <= params.bulkLen
    /\ Len(batches[b].wire) <= params.bulkLen

C21_QueuesBelowThresholds ==
  /\ (params.bulkLen >= 1 /\ params.bulkSize > 0) => QueuesBelow
  /\ params.bulkLen >= 1 => BatchesWithin

\* track has returned after the record that filled the array: a batch of
\* bulkLen records was given to putEvents and the array of its stream is
\* empty
C21_FullBatch ==
  \E b \in 1..Len(batches), i \in 1..Len(accumulated) :
    /\ params.bulkLen >= 1
    /\ params.bulkSize > 0
    /\ Len(batches[b].wire) = params.bulkLen
    /\ accumulated[i].k = batches[b].stream
    /\ heap[accumulated[i].ref] = <<>>
    /\ thrown = "none"

\* the statement for every Tracker whose bulkLen is 1 at least, whatever
\* its bulkSize
C21_AnyBulkSize == params.bulkLen >= 1 => (QueuesBelow /\ BatchesWithin)

(* C22: every delay given to setTimeout for a retry is below the ceiling   *)
(* of 1,200,000 ms, and putEvents is called 12 times at most for one       *)
(* batch, with the jitter at either end of its range.                      *)
C22_RetriesBounded ==
  \A b \in 1..Len(batches) :
    /\ batches[b].delay < 20 * 60 * 1000
    /\ batches[b].attempts <= 12
    /\ batches[b].phase = "waiting" => batches[b].attempts <= 11

\* with the least jitter at every retry putEvents was called 12 times for
\* a batch, and the last delay was above half the ceiling
C22_TwelveCalls ==
  \E b \in 1..Len(batches) :
    /\ batches[b].attempts = 12
    /\ batches[b].delay > (20 * 60 * 1000) \div 2
    /\ batches[b].delay < 20 * 60 * 1000

(* C23: the timeout belongs to the batch: a batch is first sent with the   *)
(* timeout 1000, whatever retries other batches have made, and a step that *)
(* answers or retries one batch leaves every other batch as it is.         *)
C23_RetryStatePerBatch ==
  [][/\ \A b \in 1..Len(batches') :
          batches'[b].attempts = 1 => batches'[b].timeout = 1000
     /\ \A b \in 1..Len(batches) :
          (ReplyStep(b) \/ RetryStep(b)) =>
            /\ Len(batches') = Len(batches)
            /\ \A c \in 1..Len(batches) \ {b} : batches'[c] = batches[c]
            /\ accumulated' = accumulated
            /\ \A r \in 1..Len(heap) : heap'[r] = heap[r]]_vars

\* a batch is at its second call of putEvents, with a grown timeout, and
\* another batch, sent once, is in flight with the timeout 1000
C23_RetriedNextToFresh ==
  \E b1, b2 \in 1..Len(batches) :
    /\ b1 # b2
    /\ batches[b1].attempts >= 2
    /\ batches[b1].timeout > 1000
    /\ InFlight(b1)
    /\ batches[b2].attempts = 1
    /\ batches[b2].timeout = 1000
    /\ InFlight(b2)

====
